---- MODULE Spec2Model ----
(***************************************************************************)
(* Model of the ngrok tunnel adapter (tunnel.go): tunnelImpl presents a    *)
(* tunnel_client.Tunnel as a net.Listener, with Accept, Close,             *)
(* CloseWithContext, the bind-configuration accessors, AsHTTP and Serve.   *)
(*                                                                         *)
(* The tunnel client (internal/tunnel/client) and the session are          *)
(* collaborators whose code is outside tunnel.go; their behaviour is taken *)
(* from the specification's description of the collaborator contract.      *)
(***************************************************************************)
EXTENDS Integers, Sequences, FiniteSets, TLC

(***************************************************************************)
(* Bounds of the model.                                                    *)
(***************************************************************************)
\* Number of proxied connections the remote side delivers in one run.
MaxConns == 2

\* The calling goroutines.
Procs == {1, 2}

(***************************************************************************)
(* Program constants.                                                      *)
(***************************************************************************)
\* time.Second*5 of Close(), in seconds.
CloseTimeout == 5

(***************************************************************************)
(* Values.                                                                 *)
(***************************************************************************)
\* Errors are records: kind names the error type, Inner the wrapped cause
\* (the kind of the error it wraps, "nil" when it wraps nothing).
Err(kind, inner) == [kind |-> kind, Inner |-> inner]
NoErr == Err("nil", "nil")

\* Errors the tunnel client can surface.
ErrTunnelClosed  == Err("ErrTunnelClosed", "nil")
ErrSessionClosed == Err("ErrSessionClosed", "nil")
ErrCloseRPC      == Err("ErrCloseRPC", "nil")

\* errAcceptFailed{Inner: err}
errAcceptFailed(err) == Err("errAcceptFailed", err.kind)

\* A tunnel_client.ProxyConn: the raw stream (Conn) and the proxy header the
\* stream arrived with.  The k-th arrival has stream k and header 10 + k.
ProxyConn(k) == [Conn |-> k, Header |-> 10 + k]
NilProxy == [Conn |-> 0, Header |-> 0]

\* nil net.Conn
NilConn == [Conn |-> 0, Proxy |-> NilProxy]

\* Faulty variant of connImpl: the Proxy field is left unset.
connImplNoProxy(conn) == [Conn |-> conn.Conn, Proxy |-> NilProxy]

\* &connImpl{Conn: conn.Conn, Proxy: conn}
connImpl(conn) == [Conn |-> conn.Conn, Proxy |-> conn]

\* connImpl.ProxyConn
ProxyConnOf(c) == c.Proxy

\* The owning session and the tunnel client handle the adapter was built on.
TheSession == "session"
TheClient  == "tunnel"
NoRef      == "nil"

\* The adapter object: tunnelImpl{Sess, Tunnel}.
t0 == [Sess |-> TheSession, Tunnel |-> TheClient]
NoView == [Sess |-> NoRef, Tunnel |-> NoRef]

\* Bind configurations the session's bind can produce: URL-addressed
\* (URL and ConfigProto set, no labels) or label-addressed (labels only).
\* Labels is the set of key/value pairs of the map.
BindConfigs ==
    { [URL |-> "https://a.example", ConfigProto |-> "https", Metadata |-> "m1", Labels |-> {}],
      [URL |-> "", ConfigProto |-> "", Metadata |-> "m2", Labels |-> {<<"edge", "e1">>}] }

\* Kinds of context a caller passes to CloseWithContext.
\*   done: "no" | "canceled" | "deadline";  left: seconds to the deadline,
\*   -1 when the context has no deadline.
Ctx(done, left) == [done |-> done, left |-> left]
NoCtx == Ctx("none", -1)
Background == Ctx("no", -1)
\* context.WithTimeout(context.Background(), time.Second*5)
WithTimeout5 == Ctx("no", CloseTimeout)
CallerCtxs == { Background, WithTimeout5, Ctx("canceled", -1), Ctx("deadline", 0) }

VARIABLES
    tstate,     \* tunnel client lifecycle: "Open", "Closing", "Closed"
    queue,      \* tunnel client: proxied connections waiting for Accept
    nconn,      \* number of connections the remote side has delivered
    sess,       \* the owning session: "live" or "closed"
    cfg,        \* the tunnel client's RemoteBindConfig()
    http,       \* the HTTPTunnel last returned by AsHTTP (NoView before)
    pc,         \* per goroutine: "idle", "accept", "close", "serve"
    op,         \* per goroutine: the adapter operation in flight or last returned
    arg,        \* per goroutine: the context the operation was called with
    ctx,        \* per goroutine: the current state of that context
    ret,        \* per goroutine: [conn, err] the last operation returned
    cret,       \* per goroutine: [conn, err] the client primitive last returned to it
    calls,      \* per goroutine: client primitive invocations of the operation
    late,       \* per goroutine: the handles closed before the operation started
    closeOk,    \* the client handles a Close/CloseWithContext has closed (returned nil)
    served      \* per goroutine: connections Serve dispatched to the handler

vars == << tstate, queue, nconn, sess, cfg, http, pc, op, arg, ctx, ret, cret,
           calls, late, closeOk, served >>

clientVars == << tstate, queue, nconn >>

(***************************************************************************)
(* The tunnel client (collaborator).                                       *)
(***************************************************************************)
\* Tunnel.Accept(): the outcomes the client can produce now; none when the
\* call blocks.  Open: the next queued connection.  Closing: a connection
\* queued before the close was requested, or the close error, as the client
\* chooses.  Closed: always an error.
ClientAcceptOutcomes ==
    IF tstate = "Closed"
    THEN { [conn |-> NilProxy,
            err  |-> IF sess = "closed" THEN ErrSessionClosed ELSE ErrTunnelClosed,
            rest |-> queue] }
    ELSE (IF queue # << >>
          THEN { [conn |-> Head(queue), err |-> NoErr, rest |-> Tail(queue)] }
          ELSE {})
         \cup
         (IF tstate = "Closing"
          THEN { [conn |-> NilProxy, err |-> ErrTunnelClosed, rest |-> queue] }
          ELSE {})

\* Tunnel.Close() is invoked: the close is requested; an Open tunnel is Closing.
ClientCloseRequested == IF tstate = "Open" THEN "Closing" ELSE tstate

\* Tunnel.Close() returns: nil once the close is acknowledged, or an error
\* (the close message failed, the session is gone, the tunnel was closed
\* before).  The call may also never return: then no outcome is taken.
ClientCloseOutcomes ==
    IF sess = "closed"
    THEN { ErrSessionClosed }
    ELSE { NoErr, ErrCloseRPC }
         \cup (IF tstate = "Closed" THEN { ErrTunnelClosed } ELSE {})

\* Faulty variant of the client: a close that fails leaves the tunnel open.
ClientCloseDoneReopens(err) == IF err = NoErr THEN "Closed" ELSE "Open"

\* The tunnel's lifecycle after Tunnel.Close() returned err.
ClientCloseDone(err) == IF err = NoErr THEN "Closed" ELSE tstate

(***************************************************************************)
(* The adapter: tunnelImpl.                                                *)
(***************************************************************************)
\* Faulty variants of Accept: one that does not test err and wraps whatever
\* the client returned, one that passes the client's error on unwrapped, one
\* that wraps a fixed error instead of the client's.
AcceptUnchecked(conn, err) == [conn |-> connImpl(conn), err |-> NoErr]
AcceptUnwrapped(conn, err) ==
    IF err # NoErr
    THEN [conn |-> NilConn, err |-> err]
    ELSE [conn |-> connImpl(conn), err |-> NoErr]
AcceptLosesCause(conn, err) ==
    IF err # NoErr
    THEN [conn |-> NilConn, err |-> errAcceptFailed(NoErr)]
    ELSE [conn |-> connImpl(conn), err |-> NoErr]

\* func (t *tunnelImpl) Accept(): what it returns for the client's (conn, err).
Accept(conn, err) ==
    IF err # NoErr
    THEN [conn |-> NilConn, err |-> errAcceptFailed(err)]
    ELSE [conn |-> connImpl(conn), err |-> NoErr]

\* Faulty variant of CloseWithContext: a context that is done decides the
\* result (context.Canceled or context.DeadlineExceeded).
CloseWithContextHonoursCtx(c, err) ==
    IF c.done = "canceled" THEN Err("Canceled", "nil")
    ELSE IF c.done = "deadline" THEN Err("DeadlineExceeded", "nil")
    ELSE err

\* func (t *tunnelImpl) CloseWithContext(_ context.Context): returns what
\* t.Tunnel.Close() returned (err); the context c is not consulted.
CloseWithContext(c, err) == err

\* Faulty variant of Close: CloseWithContext's result is dropped.
CloseDropsResult(c, err) == NoErr

\* func (t *tunnelImpl) Close(): CloseWithContext with the 5 second context.
Close(c, err) == CloseWithContext(c, err)

\* Tunnel.RemoteBindConfig() of the client handle c (the zero configuration
\* stands for a handle that is not the tunnel's).
ZeroBindConfig == [URL |-> "", ConfigProto |-> "", Metadata |-> "", Labels |-> {}]
RemoteBindConfig(c) == IF c = TheClient THEN cfg ELSE ZeroBindConfig

\* Faulty variant of Proto: the wrong field of the bind configuration.
ProtoWrongField(t) == RemoteBindConfig(t.Tunnel).Metadata

\* Faulty variant of URL: a closed tunnel reports no URL instead of reading
\* the bind configuration.
URLEmptyOnceClosed(t) ==
    IF tstate = "Closed" THEN "" ELSE RemoteBindConfig(t.Tunnel).URL

\* The accessors.
URL(t)      == RemoteBindConfig(t.Tunnel).URL
Proto(t)    == RemoteBindConfig(t.Tunnel).ConfigProto
Metadata(t) == RemoteBindConfig(t.Tunnel).Metadata
Labels(t)   == RemoteBindConfig(t.Tunnel).Labels
Session(t)  == t.Sess

\* Faulty variant of AsHTTP: a new adapter built on the client handle alone.
AsHTTPCopy(t) == [Sess |-> NoRef, Tunnel |-> t.Tunnel]

\* func (t *tunnelImpl) AsHTTP(): returns t itself.
AsHTTP(t) == t

\* Serve's http.Server: BaseContext returns the ctx Serve was called with
\* (c names that context), and srv.Serve(t) returns the error err that ended
\* its accept loop.
\* Faulty variant of BaseContext: context.Background() (no caller's context,
\* written 0) instead of ctx.
BaseContextBackground(c) == 0
BaseContext(c) == c
\* Faulty variant of Serve: the loop's error is swallowed.
ServeSwallows(err) == NoErr
Serve(err) == err

\* The views a caller can hold: the Tunnel it was given and, once AsHTTP has
\* been called, the HTTPTunnel it returned.
Views == {t0} \cup (IF http # NoView THEN {http} ELSE {})

\* An operation in flight: its name and the client handle (t.Tunnel) it acts on.
Op(name, tun) == [name |-> name, tun |-> tun]
Ret(conn, err) == [conn |-> conn, err |-> err]

Init ==
    /\ tstate = "Open"
    /\ queue = << >>
    /\ nconn = 0
    /\ sess = "live"
    /\ cfg \in BindConfigs
    /\ http = NoView
    /\ pc = [p \in Procs |-> "idle"]
    /\ op = [p \in Procs |-> Op("none", NoRef)]
    /\ arg = [p \in Procs |-> NoCtx]
    /\ ctx = [p \in Procs |-> NoCtx]
    /\ ret = [p \in Procs |-> Ret(NilConn, NoErr)]
    /\ cret = [p \in Procs |-> Ret(NilProxy, NoErr)]
    /\ calls = [p \in Procs |-> 0]
    /\ late = [p \in Procs |-> {}]
    /\ closeOk = {}
    /\ served = [p \in Procs |-> << >>]

\* A goroutine starts operation name on the view t with context c; the
\* client handle t.Tunnel must be the tunnel's (a nil handle panics).
Start(p, name, t, c, where) ==
    /\ pc[p] = "idle"
    /\ t \in Views
    /\ t.Tunnel = TheClient
    /\ pc' = [pc EXCEPT ![p] = where]
    /\ op' = [op EXCEPT ![p] = Op(name, t.Tunnel)]
    /\ arg' = [arg EXCEPT ![p] = c]
    /\ ctx' = [ctx EXCEPT ![p] = c]
    /\ ret' = [ret EXCEPT ![p] = Ret(NilConn, NoErr)]
    /\ cret' = [cret EXCEPT ![p] = Ret(NilProxy, NoErr)]
    /\ calls' = [calls EXCEPT ![p] = 1]
    /\ late' = [late EXCEPT ![p] = closeOk]
    /\ served' = [served EXCEPT ![p] = << >>]

\* Accept() is called: t.Tunnel.Accept() is invoked and may block.
AcceptCall(p, t) ==
    /\ Start(p, "Accept", t, NoCtx, "accept")
    /\ UNCHANGED << tstate, queue, nconn, sess, cfg, http, closeOk >>

\* Faulty variant of AcceptReturn: when t.Tunnel.Accept() fails, Accept calls
\* it once more before it gives up.
AcceptReturnRetries(p) ==
    /\ pc[p] = "accept"
    /\ \E o \in ClientAcceptOutcomes :
          /\ queue' = o.rest
          /\ cret' = [cret EXCEPT ![p] = Ret(o.conn, o.err)]
          /\ IF o.err # NoErr /\ calls[p] = 1
             THEN /\ calls' = [calls EXCEPT ![p] = 2]
                  /\ UNCHANGED << pc, ret >>
             ELSE /\ ret' = [ret EXCEPT ![p] = Accept(o.conn, o.err)]
                  /\ pc' = [pc EXCEPT ![p] = "idle"]
                  /\ UNCHANGED calls
    /\ UNCHANGED << tstate, nconn, sess, cfg, http, op, arg, ctx, late,
                    closeOk, served >>

\* t.Tunnel.Accept() returns and Accept() returns its wrapping.
AcceptReturn(p) ==
    /\ pc[p] = "accept"
    /\ \E o \in ClientAcceptOutcomes :
          /\ queue' = o.rest
          /\ cret' = [cret EXCEPT ![p] = Ret(o.conn, o.err)]
          /\ ret' = [ret EXCEPT ![p] = Accept(o.conn, o.err)]
    /\ pc' = [pc EXCEPT ![p] = "idle"]
    /\ UNCHANGED << tstate, nconn, sess, cfg, http, op, arg, ctx, calls, late,
                    closeOk, served >>

\* Close() is called: the 5 second context is made and CloseWithContext
\* invokes t.Tunnel.Close().
CloseCall(p, t) ==
    /\ Start(p, "Close", t, WithTimeout5, "close")
    /\ tstate' = ClientCloseRequested
    /\ UNCHANGED << queue, nconn, sess, cfg, http, closeOk >>

\* CloseWithContext(c) is called: t.Tunnel.Close() is invoked.
CloseWithContextCall(p, t, c) ==
    /\ Start(p, "CloseWithContext", t, c, "close")
    /\ tstate' = ClientCloseRequested
    /\ UNCHANGED << queue, nconn, sess, cfg, http, closeOk >>

\* Faulty variant of CloseReturn: a close that succeeded closes the owning
\* session as well.
CloseReturnClosesSession(p) ==
    /\ pc[p] = "close"
    /\ \E e \in ClientCloseOutcomes :
          LET r == IF op[p].name = "Close" THEN Close(ctx[p], e)
                                          ELSE CloseWithContext(ctx[p], e)
          IN  /\ tstate' = ClientCloseDone(e)
              /\ queue' = IF e = NoErr THEN << >> ELSE queue
              /\ cret' = [cret EXCEPT ![p] = Ret(NilProxy, e)]
              /\ ret' = [ret EXCEPT ![p] = Ret(NilConn, r)]
              /\ closeOk' = IF r = NoErr THEN closeOk \cup {op[p].tun} ELSE closeOk
              /\ sess' = IF e = NoErr THEN "closed" ELSE sess
    /\ pc' = [pc EXCEPT ![p] = "idle"]
    /\ ctx' = [ctx EXCEPT ![p] = NoCtx]
    /\ UNCHANGED << nconn, cfg, http, op, arg, calls, late, served >>

\* t.Tunnel.Close() returns err to p, CloseWithContext returns it, and Close()
\* returns after its deferred cancel().  The step needs the client's answer,
\* and nothing obliges the client to answer: the call may never return.
CloseReturn(p) ==
    /\ pc[p] = "close"
    /\ \E e \in ClientCloseOutcomes :
          LET r == IF op[p].name = "Close" THEN Close(ctx[p], e)
                                          ELSE CloseWithContext(ctx[p], e)
          IN  /\ tstate' = ClientCloseDone(e)
              /\ queue' = IF e = NoErr THEN << >> ELSE queue
              /\ cret' = [cret EXCEPT ![p] = Ret(NilProxy, e)]
              /\ ret' = [ret EXCEPT ![p] = Ret(NilConn, r)]
              /\ closeOk' = IF r = NoErr THEN closeOk \cup {op[p].tun} ELSE closeOk
    /\ pc' = [pc EXCEPT ![p] = "idle"]
    /\ ctx' = [ctx EXCEPT ![p] = NoCtx]
    /\ UNCHANGED << nconn, sess, cfg, http, op, arg, calls, late, served >>

\* One second passes: every context with a pending deadline moves towards it
\* and is done with DeadlineExceeded when it is reached.
Tick ==
    /\ \E p \in Procs : ctx[p].done = "no" /\ ctx[p].left > 0
    /\ ctx' = [p \in Procs |->
                 IF ctx[p].done = "no" /\ ctx[p].left > 0
                 THEN Ctx(IF ctx[p].left = 1 THEN "deadline" ELSE "no", ctx[p].left - 1)
                 ELSE ctx[p]]
    /\ UNCHANGED << tstate, queue, nconn, sess, cfg, http, pc, op, arg, ret,
                    cret, calls, late, closeOk, served >>

\* The caller cancels the context it passed to CloseWithContext or Serve.
Cancel(p) ==
    /\ pc[p] \in {"close", "serve"}
    /\ op[p].name # "Close"
    /\ ctx[p].done = "no"
    /\ ctx' = [ctx EXCEPT ![p] = Ctx("canceled", -1)]
    /\ UNCHANGED << tstate, queue, nconn, sess, cfg, http, pc, op, arg, ret,
                    cret, calls, late, closeOk, served >>

\* Serve(c, h) is called on the HTTPTunnel: srv.Serve(t) enters its accept
\* loop and calls t.Accept().
ServeCall(p, c) ==
    /\ c \in { Background, Ctx("canceled", -1) }
    /\ http # NoView
    /\ Start(p, "Serve", http, c, "serve")
    /\ UNCHANGED << tstate, queue, nconn, sess, cfg, http, closeOk >>

\* Faulty variant of ServeStep: the loop looks at the context first and
\* returns context.Canceled, without accepting, once it is cancelled.
ServeStepStopsOnCancel(p) ==
    /\ pc[p] = "serve"
    /\ IF ctx[p].done = "canceled"
       THEN /\ ret' = [ret EXCEPT ![p] = Ret(NilConn, Err("Canceled", "nil"))]
            /\ pc' = [pc EXCEPT ![p] = "idle"]
            /\ ctx' = [ctx EXCEPT ![p] = NoCtx]
            /\ UNCHANGED << queue, cret, served, calls >>
       ELSE \E o \in ClientAcceptOutcomes :
              LET r == Accept(o.conn, o.err)
              IN  /\ queue' = o.rest
                  /\ cret' = [cret EXCEPT ![p] = Ret(o.conn, o.err)]
                  /\ IF r.err = NoErr
                     THEN /\ served' = [served EXCEPT ![p] =
                                          Append(@, [conn |-> r.conn, base |-> BaseContext(p)])]
                          /\ calls' = [calls EXCEPT ![p] = @ + 1]
                          /\ UNCHANGED << pc, ret, ctx >>
                     ELSE /\ ret' = [ret EXCEPT ![p] = Ret(NilConn, Serve(r.err))]
                          /\ pc' = [pc EXCEPT ![p] = "idle"]
                          /\ ctx' = [ctx EXCEPT ![p] = NoCtx]
                          /\ UNCHANGED << served, calls >>
    /\ UNCHANGED << tstate, nconn, sess, cfg, http, op, arg, late, closeOk >>

\* One turn of srv.Serve's loop: t.Accept() returns; a connection is
\* dispatched to the handler with the base context and the loop accepts
\* again; an error ends the loop and Serve returns it.
ServeStep(p) ==
    /\ pc[p] = "serve"
    /\ \E o \in ClientAcceptOutcomes :
          LET r == Accept(o.conn, o.err)
          IN  /\ queue' = o.rest
              /\ cret' = [cret EXCEPT ![p] = Ret(o.conn, o.err)]
              /\ IF r.err = NoErr
                 THEN /\ served' = [served EXCEPT ![p] =
                                      Append(@, [conn |-> r.conn, base |-> BaseContext(p)])]
                      /\ calls' = [calls EXCEPT ![p] = @ + 1]
                      /\ UNCHANGED << pc, ret, ctx >>
                 ELSE /\ ret' = [ret EXCEPT ![p] = Ret(NilConn, Serve(r.err))]
                      /\ pc' = [pc EXCEPT ![p] = "idle"]
                      /\ ctx' = [ctx EXCEPT ![p] = NoCtx]
                      /\ UNCHANGED << served, calls >>
    /\ UNCHANGED << tstate, nconn, sess, cfg, http, op, arg, late, closeOk >>

\* AsHTTP() is called through a view the caller holds.
AsHTTPCall(t) ==
    /\ t \in Views
    /\ http' = AsHTTP(t)
    /\ UNCHANGED << tstate, queue, nconn, sess, cfg, pc, op, arg, ctx, ret, cret,
                    calls, late, closeOk, served >>

\* The remote side delivers a proxied connection to the open tunnel.
Arrive ==
    /\ nconn < MaxConns
    /\ tstate = "Open"
    /\ sess = "live"
    /\ nconn' = nconn + 1
    /\ queue' = Append(queue, ProxyConn(nconn + 1))
    /\ UNCHANGED << tstate, sess, cfg, http, pc, op, arg, ctx, ret, cret, calls,
                    late, closeOk, served >>

\* The owning session terminates: its tunnels are closed with it.
SessionTerminate ==
    /\ sess = "live"
    /\ sess' = "closed"
    /\ tstate' = "Closed"
    /\ queue' = << >>
    /\ UNCHANGED << nconn, cfg, http, pc, op, arg, ctx, ret, cret, calls, late,
                    closeOk, served >>

\* The collaborator changes the bind configuration out of band.
ChangeBindConfig ==
    /\ cfg' \in BindConfigs \ {cfg}
    /\ UNCHANGED << tstate, queue, nconn, sess, http, pc, op, arg, ctx, ret, cret,
                    calls, late, closeOk, served >>

Next ==
    \/ \E p \in Procs, t \in Views : AcceptCall(p, t)
    \/ \E p \in Procs : AcceptReturn(p)
    \/ \E p \in Procs, t \in Views : CloseCall(p, t)
    \/ \E p \in Procs, t \in Views, c \in CallerCtxs :
          CloseWithContextCall(p, t, c)
    \/ \E p \in Procs : CloseReturn(p)
    \/ \E p \in Procs, c \in CallerCtxs : ServeCall(p, c)
    \/ \E p \in Procs : ServeStep(p)
    \/ \E p \in Procs : Cancel(p)
    \/ \E t \in Views : AsHTTPCall(t)
    \/ Tick
    \/ Arrive
    \/ SessionTerminate
    \/ ChangeBindConfig

Spec == Init /\ [][Next]_vars

\* The goroutines are scheduled and time passes; the client hands a queued
\* connection or its close error to a waiting Accept.  Nothing is assumed of
\* the client's answer to Close (CloseReturn waits for it), of arrivals or
\* of the callers starting operations.
Fairness ==
    /\ WF_vars(Tick)
    /\ \A p \in Procs : WF_vars(AcceptReturn(p))
    /\ \A p \in Procs : WF_vars(ServeStep(p))

FairSpec == Spec /\ Fairness

(***************************************************************************)
(* Properties.                                                             *)
(***************************************************************************)
Returned(p, name) == pc[p] = "idle" /\ op[p].name = name
ReturnedClose(p) == Returned(p, "Close") \/ Returned(p, "CloseWithContext")

\* C1: once a Close or CloseWithContext on the tunnel has returned nil, every
\* Accept that starts afterwards returns an error and no connection; the
\* same holds for the Accept calls of a Serve started afterwards, which
\* dispatches nothing.
C1_AcceptAfterCloseFails ==
    \A p \in Procs :
        /\ (Returned(p, "Accept") /\ op[p].tun \in late[p])
              => (ret[p].err # NoErr /\ ret[p].conn = NilConn)
        /\ (op[p].name = "Serve" /\ op[p].tun \in late[p]) => served[p] = << >>

\* An Accept started after a successful close has returned its error while
\* the session is still live and connections had been delivered before.
C1_Witness ==
    \E p \in Procs, q \in Procs :
        /\ p # q
        /\ Returned(p, "Accept") /\ op[p].tun \in late[p]
        /\ ret[p].err.kind = "errAcceptFailed"
        /\ ReturnedClose(q) /\ ret[q].err = NoErr
        /\ sess = "live" /\ nconn > 0

\* C2: when the client's accept returned an error e, Accept returns no
\* connection and an errAcceptFailed whose Inner is e; when it returned a
\* connection, Accept returns a connection and a nil error.
C2_AcceptWrapsError ==
    \A p \in Procs :
        Returned(p, "Accept") =>
            IF cret[p].err # NoErr
            THEN /\ ret[p].conn = NilConn
                 /\ ret[p].err.kind = "errAcceptFailed"
                 /\ ret[p].err.Inner = cret[p].err.kind
            ELSE /\ ret[p].err = NoErr
                 /\ ret[p].conn # NilConn

\* One goroutine's Accept has failed with the client's error wrapped and
\* another's has returned a connection.
C2_Witness ==
    \E p \in Procs, q \in Procs :
        /\ Returned(p, "Accept") /\ cret[p].err = ErrTunnelClosed
        /\ ret[p].err = Err("errAcceptFailed", "ErrTunnelClosed")
        /\ Returned(q, "Accept") /\ ret[q].err = NoErr /\ ret[q].conn # NilConn

\* The error a done context reports: context.Canceled or DeadlineExceeded.
CtxDone(c) == c.done \in {"canceled", "deadline"}
CtxErrKinds == {"Canceled", "DeadlineExceeded"}

\* C3: a CloseWithContext whose context is done (cancelled or past its
\* deadline) while the client's close has not returned eventually returns.
C3_ReturnsOnceCancelled ==
    \A p \in Procs :
        (pc[p] = "close" /\ op[p].name = "CloseWithContext" /\ CtxDone(ctx[p]))
            ~> (pc[p] = "idle")

\* C5: every Close() in flight eventually returns (its 5 second context
\* ends the wait).
C5_CloseReturns ==
    \A p \in Procs :
        (pc[p] = "close" /\ op[p].name = "Close") ~> (pc[p] = "idle")

\* C7: an Accept that is blocked (nothing queued) while a Close or
\* CloseWithContext is in flight eventually returns the close error, wrapped.
C7_BlockedAcceptUnblocks ==
    \A p \in Procs :
        (/\ pc[p] = "accept" /\ queue = << >>
         /\ \E q \in Procs : pc[q] = "close")
            ~> (/\ Returned(p, "Accept")
                /\ ret[p].conn = NilConn
                /\ ret[p].err.kind = "errAcceptFailed"
                /\ ret[p].err.Inner \in {"ErrTunnelClosed", "ErrSessionClosed"})

\* An Accept is blocked on the open, live tunnel's client while another
\* goroutine's close is in flight.
C7_Witness ==
    \E p \in Procs, q \in Procs :
        /\ pc[p] = "accept" /\ queue = << >> /\ ~(op[p].tun \in late[p])
        /\ pc[q] = "close" /\ sess = "live" /\ tstate = "Closing"

\* C4: a Close() and a CloseWithContext called with a context bounded to 5
\* seconds make the same number of calls on the client and, when the client
\* answers them alike, return the same result.
C4_CloseEquivalent ==
    \A p \in Procs, q \in Procs :
        (/\ op[p].name = "Close"
         /\ op[q].name = "CloseWithContext" /\ arg[q] = WithTimeout5)
        => /\ calls[p] = calls[q]
           /\ (pc[p] = "idle" /\ pc[q] = "idle" /\ cret[p] = cret[q])
                 => ret[p] = ret[q]

\* A Close() and a CloseWithContext with the 5 second context have both
\* returned the error the client answered to each.
C4_Witness ==
    \E p \in Procs, q \in Procs :
        /\ Returned(p, "Close")
        /\ Returned(q, "CloseWithContext") /\ arg[q] = WithTimeout5
        /\ cret[p].err = ErrCloseRPC /\ cret[q].err = ErrCloseRPC
        /\ ret[p].err = ErrCloseRPC

\* C6: a Serve that has returned returns the accept error that ended its
\* loop (errAcceptFailed whose Inner is the client's error), and every
\* connection its Accept calls returned before was dispatched to the handler:
\* all but the last Accept call gave a connection, each a different one.
C6_ServeReturnsAcceptError ==
    \A p \in Procs :
        op[p].name = "Serve" =>
            /\ Len(served[p]) = calls[p] - 1
            /\ \A i \in 1..Len(served[p]) :
                  /\ served[p][i].conn # NilConn
                  /\ \A j \in 1..Len(served[p]) :
                        served[p][i].conn = served[p][j].conn => i = j
            /\ pc[p] = "idle" =>
                  /\ cret[p].err # NoErr
                  /\ ret[p].err.kind = "errAcceptFailed"
                  /\ ret[p].err.Inner = cret[p].err.kind

\* The scenario of the specification: Serve has dispatched exactly one
\* connection and returned the error wrapping the tunnel's close error.
C6_Witness ==
    \E p \in Procs :
        /\ Returned(p, "Serve")
        /\ Len(served[p]) = 1
        /\ ret[p].err = Err("errAcceptFailed", "ErrTunnelClosed")

\* C8: when the client's close returned an error e, Close and
\* CloseWithContext return an error of the errCloseFailed kind wrapping e.
C8_CloseWrapsError ==
    \A p \in Procs :
        (ReturnedClose(p) /\ cret[p].err # NoErr)
            => (ret[p].err.kind = "errCloseFailed" /\ ret[p].err.Inner = cret[p].err.kind)

\* C9: the HTTPTunnel AsHTTP returned is the tunnel itself: the same session,
\* the same client handle, the same value from every accessor; every
\* operation, through either view, acts on that one client handle, so an
\* Accept started after a successful close through any view returns no
\* connection.
C9_AsHTTPSameTunnel ==
    /\ http # NoView =>
          /\ Session(http) = Session(t0)
          /\ http.Tunnel = t0.Tunnel
          /\ URL(http) = URL(t0)
          /\ Proto(http) = Proto(t0)
          /\ Metadata(http) = Metadata(t0)
          /\ Labels(http) = Labels(t0)
    /\ \A p \in Procs :
          /\ op[p].name # "none" => op[p].tun = t0.Tunnel
          /\ (Returned(p, "Accept") /\ closeOk \cap late[p] # {})
                => ret[p].conn = NilConn

\* AsHTTP has been called, a Serve through the HTTPTunnel has ended after a
\* close succeeded, and an Accept started after that close has returned.
C9_Witness ==
    /\ http # NoView /\ Session(http) = TheSession
    /\ closeOk # {}
    /\ \E p \in Procs, q \in Procs :
          /\ Returned(p, "Serve")
          /\ Returned(q, "Accept") /\ late[q] # {}

\* C10: through every view, when Labels() is not empty Proto() and URL() are
\* empty, and when Proto() or URL() is not empty Labels() is empty.
C10_LabelsExcludeURL ==
    \A t \in Views :
        /\ Labels(t) # {} => (Proto(t) = "" /\ URL(t) = "")
        /\ (Proto(t) # "" \/ URL(t) # "") => Labels(t) = {}

\* The bind configuration has become label-addressed while the tunnel was in
\* use, and the accessors are read through both views.
C10_Witness ==
    /\ http # NoView
    /\ \A t \in Views : Labels(t) # {} /\ Proto(t) = "" /\ URL(t) = ""
    /\ \E p \in Procs : Returned(p, "Accept") /\ ret[p].err = NoErr

\* C11: the accessors are not cached: in every state, whatever out-of-band
\* changes the bind configuration has gone through and whether the tunnel is
\* open, closing or closed, URL, Proto, Metadata and Labels return through
\* every view the value the bind configuration holds now.
C11_AccessorsReadThrough ==
    \A t \in Views :
        /\ URL(t) = cfg.URL
        /\ Proto(t) = cfg.ConfigProto
        /\ Metadata(t) = cfg.Metadata
        /\ Labels(t) = cfg.Labels

\* The tunnel has been closed by a Close that returned nil and the accessors
\* give the label-addressed configuration the collaborator switched to.
C11_Witness ==
    /\ tstate = "Closed" /\ closeOk # {} /\ http # NoView
    /\ cfg.Labels # {}
    /\ \A t \in Views : URL(t) = "" /\ Metadata(t) = "m2" /\ Labels(t) = cfg.Labels

\* C12: every connection Serve dispatched to the handler has the context of
\* that Serve call as base context, so when the caller has cancelled it
\* every request of the Serve in flight sees a cancelled context.
C12_BaseContextIsCallers ==
    \A p \in Procs :
        \A i \in 1..Len(served[p]) :
            /\ served[p][i].base = p
            /\ (pc[p] = "serve" /\ ctx[p].done = "canceled")
                  => ctx[served[p][i].base].done = "canceled"

\* A Serve called with a live context has dispatched a connection and its
\* caller has cancelled the context since.
C12_Witness ==
    \E p \in Procs :
        /\ pc[p] = "serve" /\ arg[p] = Background
        /\ Len(served[p]) >= 1
        /\ ctx[p].done = "canceled"

\* C13: the lifecycle only moves forward: in no step does a Closing tunnel
\* become Open or a Closed tunnel become Open or Closing, whatever operation
\* the step is.
C13_LifecycleForward ==
    [][ /\ tstate = "Closing" => tstate' \in {"Closing", "Closed"}
        /\ tstate = "Closed" => tstate' = "Closed" ]_vars

\* A Close() started after an earlier close had succeeded has returned, a
\* CloseWithContext has failed, and the tunnel is Closed.
C13_Witness ==
    \E p \in Procs, q \in Procs :
        /\ Returned(p, "Close") /\ late[p] # {}
        /\ Returned(q, "CloseWithContext") /\ ret[q].err # NoErr
        /\ tstate = "Closed" /\ sess = "live"

\* C14: no retries: an Accept, Close or CloseWithContext, in flight or
\* returned, with success or with an error, has invoked its client primitive
\* exactly once; a goroutine that has called nothing has invoked none.
C14_NoRetries ==
    \A p \in Procs :
        /\ op[p].name \in {"Accept", "Close", "CloseWithContext"} => calls[p] = 1
        /\ op[p].name = "none" => calls[p] = 0

\* An Accept and a Close have both returned the client's error after one
\* invocation each.
C14_Witness ==
    \E p \in Procs, q \in Procs :
        /\ Returned(p, "Accept") /\ cret[p].err # NoErr /\ calls[p] = 1
        /\ Returned(q, "Close") /\ cret[q].err = ErrCloseRPC /\ calls[q] = 1

\* The connections goroutine p holds now: the one its Accept returned, or
\* those its Serve dispatched.
Held(p) ==
    IF Returned(p, "Accept") /\ ret[p].err = NoErr THEN { ret[p].conn }
    ELSE IF op[p].name = "Serve"
         THEN { served[p][i].conn : i \in 1..Len(served[p]) }
         ELSE {}

\* C15: a connection Accept returned carries the stream and the proxy
\* envelope of the one accept result the client gave that call (ProxyConn()
\* is that result and its stream is the connection's); no proxied connection
\* is held by two callers, nor held while still queued in the client.
C15_OneAcceptResultPerConn ==
    \A p \in Procs :
        /\ (Returned(p, "Accept") /\ ret[p].err = NoErr) =>
              /\ ProxyConnOf(ret[p].conn) = cret[p].conn
              /\ ret[p].conn.Conn = cret[p].conn.Conn
        /\ \A c \in Held(p) :
              /\ c.Conn = ProxyConnOf(c).Conn
              /\ ProxyConnOf(c) \in { ProxyConn(k) : k \in 1..nconn }
              /\ \A i \in 1..Len(queue) : queue[i] # ProxyConnOf(c)
              /\ \A q \in Procs \ {p} :
                    \A d \in Held(q) :
                        /\ ProxyConnOf(d) # ProxyConnOf(c)
                        /\ d.Conn # c.Conn

\* Two Accept calls in flight together have returned the two connections.
C15_Witness ==
    \E p \in Procs, q \in Procs :
        /\ Returned(p, "Accept") /\ ProxyConnOf(ret[p].conn) = ProxyConn(1)
        /\ Returned(q, "Accept") /\ ProxyConnOf(ret[q].conn) = ProxyConn(2)
        /\ ret[p].conn.Conn # ret[q].conn.Conn

\* C16: no operation of the adapter changes the owning session: after every
\* step Session() is the same reference through every view, and a step in
\* which a goroutine's operation is called, proceeds or returns, or in which
\* AsHTTP is called, leaves the session's state as it was; in particular a
\* close that succeeds leaves the session live.
C16_SessionUntouched ==
    [][ /\ \A t \in Views' : Session(t) = TheSession
        /\ (\/ \E p \in Procs : \/ pc'[p] # pc[p]
                                 \/ op'[p] # op[p]
                                 \/ ret'[p] # ret[p]
                                 \/ served'[p] # served[p]
            \/ http' # http
            \/ closeOk' # closeOk)
             => sess' = sess ]_vars

\* The tunnel has been closed by a Close() that returned nil, an Accept and
\* a Serve have ended on the closed tunnel, and the session is still live.
C16_Witness ==
    /\ sess = "live" /\ tstate = "Closed" /\ closeOk # {}
    /\ \A t \in Views : Session(t) = TheSession
    /\ \E p \in Procs, q \in Procs :
          /\ Returned(p, "Close") /\ ret[p].err = NoErr
          /\ Returned(q, "Serve")

C18_ServeEndsOnAcceptErrorOnly ==
    [][ \A p \in Procs :
          /\ (pc[p] = "serve" /\ pc'[p] # "serve")
                => /\ cret'[p].err # NoErr
                   /\ ret'[p].err = errAcceptFailed(cret'[p].err)
          /\ (pc[p] = "serve" /\ ctx'[p].done = "canceled" /\ ctx[p].done = "no")
                => pc'[p] = "serve" ]_vars

\* A Serve called with a context that was already cancelled is still in its
\* loop and has accepted and dispatched both connections.
C18_Witness ==
    \E p \in Procs :
        /\ pc[p] = "serve" /\ arg[p] = Ctx("canceled", -1)
        /\ ctx[p].done = "canceled"
        /\ Len(served[p]) >= 2

====
